---- MODULE Spec2Model ----
(***************************************************************************)
(* SmartFiltering: the three search tools of the specialist agents         *)
(* (search_transport_listings, search_accommodation_listings,              *)
(* search_item_listings) over the in-memory listing collection             *)
(* mock_listings of my_agent/data/mock_db.py.                              *)
(*                                                                         *)
(* Representation.                                                         *)
(*  - A Python str is a tuple of one-character strings, so that lower()    *)
(*    and the substring test `in` are computed, not assumed.               *)
(*  - An Optional argument is a tuple of length 0 (None) or 1 (a value).   *)
(*  - averageRating is held in tenths (4.7 is 47) and basePrice in whole   *)
(*    units (80.0 is 80); score is held in hundredths, so                  *)
(*    averageRating * 2.0 - basePrice / 100.0 is 20 * rating - price, and  *)
(*    the comparisons against 0.99 * max and min * 1.01 are cross-         *)
(*    multiplied by 100. For the values of Pool the double-precision       *)
(*    results of the source order and tie exactly as these integers do.    *)
(*  - The ranking half of the three tools is the same text three times     *)
(*    (transport_agent.py 64-123, accommodation_agent.py 50-103,           *)
(*    item_agent.py 43-96); it is modelled once and mapped to the          *)
(*    transport tool.                                                      *)
(***************************************************************************)
EXTENDS Integers, Sequences, FiniteSets, TLC

VARIABLES
    mock_listings,  \* mock_db.mock_listings: the shared listing collection
    callers,        \* the callers that invoke the tools
    pc,             \* per caller: "idle", "filtered" (after the filters), "done"
    fn,             \* per caller: which tool it is running
    crit,           \* per caller: the arguments of the running call
    candidates,     \* per caller: the local `candidates` after the filters
    result,         \* per caller: the value the call returned
    prev            \* per caller: the value its first call with these arguments returned

vars == <<mock_listings, callers, pc, fn, crit, candidates, result, prev>>

----------------------------------------------------------------------------
(* Bounds of the model *)

\* Largest number of listings in a generated collection.
MaxListings == 4
\* Largest number of arguments a call sets at once.
MaxCriteria == 2

----------------------------------------------------------------------------
(* Python values *)

None == <<>>
Some(v) == <<v>>
IsSet(o) == Len(o) = 1
Val(o) == o[1]

UpperCase == <<"A","B","C","D","E","F","G","H","I","J","K","L","M",
               "N","O","P","Q","R","S","T","U","V","W","X","Y","Z">>
LowerCase == <<"a","b","c","d","e","f","g","h","i","j","k","l","m",
               "n","o","p","q","r","s","t","u","v","w","x","y","z">>

\* str.lower() on the letters: each upper-case letter with its lower-case one.
LowerOf ==
    [c \in {UpperCase[i] : i \in DOMAIN UpperCase} |->
        LowerCase[CHOOSE i \in DOMAIN UpperCase : UpperCase[i] = c]]

\* str.lower() on one character: every other character is left as it is.
lower_char(c) == IF c \in DOMAIN LowerOf THEN LowerOf[c] ELSE c

\* str.lower()
lower(s) == [i \in DOMAIN s |-> lower_char(s[i])]

\* Python's `sub in s` on strings.
str_in(sub, s) ==
    \E i \in 0..(Len(s) - Len(sub)) : SubSeq(s, i + 1, i + Len(sub)) = sub

\* Truthiness of an Optional[str]: None and "" are falsy.
truthy_str(o) == IsSet(o) /\ Val(o) # <<>>
\* Truthiness of an Optional[int]: None and 0 are falsy.
truthy_int(o) == IsSet(o) /\ Val(o) # 0

----------------------------------------------------------------------------
(* mock_db.py: the listings *)

KualaLumpur == <<"K","u","a","l","a"," ","L","u","m","p","u","r">>
Penang == <<"P","e","n","a","n","g">>

T001 == [kind |-> "Transport", listingId |-> "T001", title |-> "Toyota Camry 2018",
         basePrice |-> 80, location |-> KualaLumpur, averageRating |-> 47,
         vehicleType |-> <<"c","a","r">>, make |-> <<"T","o","y","o","t","a">>,
         model |-> <<"C","a","m","r","y">>, year |-> 2018]
T002 == [kind |-> "Transport", listingId |-> "T002", title |-> "Honda City 2019",
         basePrice |-> 70, location |-> KualaLumpur, averageRating |-> 45,
         vehicleType |-> <<"c","a","r">>, make |-> <<"H","o","n","d","a">>,
         model |-> <<"C","i","t","y">>, year |-> 2019]
A001 == [kind |-> "Accommodation", listingId |-> "A001", title |-> "Cozy Apartment in KL",
         basePrice |-> 150, location |-> KualaLumpur, averageRating |-> 46,
         propertyType |-> <<"A","p","a","r","t","m","e","n","t">>, numGuests |-> 2]
A002 == [kind |-> "Accommodation", listingId |-> "A002", title |-> "Family Home in Penang",
         basePrice |-> 200, location |-> Penang, averageRating |-> 48,
         propertyType |-> <<"H","o","u","s","e">>, numGuests |-> 6]
I001 == [kind |-> "Item", listingId |-> "I001", title |-> "Canon DSLR Camera",
         basePrice |-> 60, location |-> KualaLumpur, averageRating |-> 48,
         itemCategory |-> <<"E","l","e","c","t","r","o","n","i","c","s">>]
I002 == [kind |-> "Item", listingId |-> "I002", title |-> "Power Drill",
         basePrice |-> 20, location |-> KualaLumpur, averageRating |-> 43,
         itemCategory |-> <<"T","o","o","l","s">>]

\* The collection as the repository ships it.
MockListings == <<T001, T002, A001, A002, I001, I002>>

\* Further listings, for the scenarios the comment at mock_db.py 54-56 invites
\* ("You can modify this list to test different scenarios or add more entries"):
\* T003 ties T001 on score at a lower price, T004 wins a set without being
\* highly rated, T005 is free and poorly rated, A003 repeats A001's price and rating.
T003 == [kind |-> "Transport", listingId |-> "T003", title |-> "Yamaha NMax 2018",
         basePrice |-> 60, location |-> Penang, averageRating |-> 46,
         vehicleType |-> <<"m","o","t","o","r","c","y","c","l","e">>,
         make |-> <<"Y","a","m","a","h","a">>, model |-> <<"N","M","a","x">>, year |-> 2018]
T004 == [kind |-> "Transport", listingId |-> "T004", title |-> "Perodua Myvi 2020",
         basePrice |-> 101, location |-> Penang, averageRating |-> 44,
         vehicleType |-> <<"c","a","r">>, make |-> <<"P","e","r","o","d","u","a">>,
         model |-> <<"M","y","v","i">>, year |-> 2020]
T005 == [kind |-> "Transport", listingId |-> "T005", title |-> "Community Bicycle",
         basePrice |-> 0, location |-> Penang, averageRating |-> 30,
         vehicleType |-> <<"b","i","c","y","c","l","e">>, make |-> <<"R","a","l","e","i","g","h">>,
         model |-> <<"C","i","t","y">>, year |-> 2020]
A003 == [kind |-> "Accommodation", listingId |-> "A003", title |-> "Seaside Studio",
         basePrice |-> 150, location |-> Penang, averageRating |-> 46,
         propertyType |-> <<"S","t","u","d","i","o">>, numGuests |-> 3]

Pool == <<T001, T002, T003, T004, T005, A001, A002, A003, I001, I002>>

RECURSIVE Pick(_, _)
\* The listings of Pool at the positions of S, in Pool order.
Pick(S, i) ==
    IF i > Len(Pool) THEN <<>>
    ELSE IF i \in S THEN <<Pool[i]>> \o Pick(S, i + 1)
    ELSE Pick(S, i + 1)

Reverse(s) == [i \in DOMAIN s |-> s[Len(s) + 1 - i]]

\* The collections a run starts from: the shipped one, and every selection of at
\* most MaxListings listings of Pool, in Pool order or reversed.
Collections ==
    {MockListings} \cup
    UNION { {Pick(S, 1), Reverse(Pick(S, 1))} :
              S \in {S \in SUBSET DOMAIN Pool : Cardinality(S) <= MaxListings} }

\* isinstance(l, Transport | Accommodation | Item)
isinstance(l, k) == l.kind = k

get_transport_listings(db) == SelectSeq(db, LAMBDA l : isinstance(l, "Transport"))
get_accommodation_listings(db) == SelectSeq(db, LAMBDA l : isinstance(l, "Accommodation"))
get_item_listings(db) == SelectSeq(db, LAMBDA l : isinstance(l, "Item"))

\* The getter a tool calls (line 49 / 41 / 36, and again at 66 / 52 / 45).
get_listings(db, f) ==
    CASE f = "transport" -> get_transport_listings(db)
      [] f = "accommodation" -> get_accommodation_listings(db)
      [] f = "item" -> get_item_listings(db)

----------------------------------------------------------------------------
(* The filters: transport_agent.py 51-62, accommodation_agent.py 42-49,
   item_agent.py 37-42 *)

\* if location: candidates = [l for l in candidates if location.lower() in l.location.lower()]
by_location(cs, location) ==
    IF truthy_str(location)
    THEN SelectSeq(cs, LAMBDA l : str_in(lower(Val(location)), lower(l.location)))
    ELSE cs

\* A variant of by_max_price that tests the truthiness of max_price, as the year
\* and guest filters do.
by_max_price_truthy(cs, max_price) ==
    IF truthy_int(max_price)
    THEN SelectSeq(cs, LAMBDA l : l.basePrice <= Val(max_price))
    ELSE cs

\* if max_price is not None: candidates = [l for l in candidates if l.basePrice <= max_price]
by_max_price(cs, max_price) ==
    IF IsSet(max_price)
    THEN SelectSeq(cs, LAMBDA l : l.basePrice <= Val(max_price))
    ELSE cs

\* if vehicle_type: ... vehicle_type.lower() in l.vehicleType.lower()
by_vehicle_type(cs, vehicle_type) ==
    IF truthy_str(vehicle_type)
    THEN SelectSeq(cs, LAMBDA l : str_in(lower(Val(vehicle_type)), lower(l.vehicleType)))
    ELSE cs

\* if make: ... make.lower() in l.make.lower()
by_make(cs, make) ==
    IF truthy_str(make)
    THEN SelectSeq(cs, LAMBDA l : str_in(lower(Val(make)), lower(l.make)))
    ELSE cs

\* if model: ... model.lower() in l.model.lower()
by_model(cs, model) ==
    IF truthy_str(model)
    THEN SelectSeq(cs, LAMBDA l : str_in(lower(Val(model)), lower(l.model)))
    ELSE cs

\* if year: candidates = [l for l in candidates if l.year == year]
by_year(cs, year) ==
    IF truthy_int(year)
    THEN SelectSeq(cs, LAMBDA l : l.year = Val(year))
    ELSE cs

\* if property_type: ... property_type.lower() in l.propertyType.lower()
by_property_type(cs, property_type) ==
    IF truthy_str(property_type)
    THEN SelectSeq(cs, LAMBDA l : str_in(lower(Val(property_type)), lower(l.propertyType)))
    ELSE cs

\* if num_guests: candidates = [l for l in candidates if l.numGuests >= num_guests]
by_num_guests(cs, num_guests) ==
    IF truthy_int(num_guests)
    THEN SelectSeq(cs, LAMBDA l : l.numGuests >= Val(num_guests))
    ELSE cs

\* if item_category: ... item_category.lower() in l.itemCategory.lower()
by_item_category(cs, item_category) ==
    IF truthy_str(item_category)
    THEN SelectSeq(cs, LAMBDA l : str_in(lower(Val(item_category)), lower(l.itemCategory)))
    ELSE cs

\* search_transport_listings, lines 49-62
filter_transport(db, a) ==
    by_year(by_model(by_make(by_vehicle_type(by_max_price(by_location(
        get_transport_listings(db), a.location), a.max_price), a.vehicle_type),
        a.make), a.model), a.year)

\* search_accommodation_listings, lines 41-49
filter_accommodation(db, a) ==
    by_num_guests(by_property_type(by_max_price(by_location(
        get_accommodation_listings(db), a.location), a.max_price), a.property_type),
        a.num_guests)

\* A variant of filter_item whose price filter reads the whole item list again
\* instead of the candidates left by the location filter.
filter_item_restart(db, a) ==
    by_item_category(
        IF IsSet(a.max_price)
        THEN by_max_price(get_item_listings(db), a.max_price)
        ELSE by_location(get_item_listings(db), a.location),
        a.item_category)

\* search_item_listings, lines 36-42
filter_item(db, a) ==
    by_item_category(by_max_price(by_location(
        get_item_listings(db), a.location), a.max_price), a.item_category)

filter_listings(db, f, a) ==
    CASE f = "transport" -> filter_transport(db, a)
      [] f = "accommodation" -> filter_accommodation(db, a)
      [] f = "item" -> filter_item(db, a)

----------------------------------------------------------------------------
(* The ranking: transport_agent.py 64-123 *)

\* A variant of score that leaves the price out.
score_rating_only(l) == 20 * l.averageRating

\* score = listing.averageRating * 2.0 - listing.basePrice / 100.0, in hundredths
score(l) == 20 * l.averageRating - l.basePrice

\* The builtins max() and min() over a generator of numbers.
max(S) == CHOOSE m \in S : \A x \in S : x <= m
min(S) == CHOOSE m \in S : \A x \in S : m <= x

ratings(ls) == {ls[i].averageRating : i \in DOMAIN ls}
prices(ls) == {ls[i].basePrice : i \in DOMAIN ls}

\* A variant of better that also replaces the best on an equal score.
better_or_equal(s, best_score) == ~IsSet(best_score) \/ s >= Val(best_score)

\* A variant of better with the comparison turned round.
better_reversed(s, best_score) == ~IsSet(best_score) \/ s < Val(best_score)

\* if score > best_score, where best_score starts as float("-inf") (None here)
better(s, best_score) == ~IsSet(best_score) \/ s > Val(best_score)

RECURSIVE best_loop(_, _, _, _)
\* for listing in candidates: ... (lines 103-107); best starts as None
best_loop(cs, i, best, best_score) ==
    IF i > Len(cs) THEN best
    ELSE IF better(score(cs[i]), best_score)
         THEN best_loop(cs, i + 1, Some(cs[i]), Some(score(cs[i])))
         ELSE best_loop(cs, i + 1, best, best_score)

\* A variant of high_rating with a strict rating threshold.
high_rating_strict(l, max_rating) ==
    l.averageRating > 45 /\ 100 * l.averageRating >= 99 * max_rating

\* best.averageRating >= 4.5 and best.averageRating >= 0.99 * max_rating
high_rating(l, max_rating) ==
    l.averageRating >= 45 /\ 100 * l.averageRating >= 99 * max_rating

\* A variant of cheap with a strict comparison.
cheap_strict(l, min_price) == 100 * l.basePrice < 101 * min_price

\* basePrice <= min_price * 1.01
cheap(l, min_price) == 100 * l.basePrice <= 101 * min_price

\* A variant of best_reason that tests the price before the rating.
best_reason_price_first(best, cs) ==
    IF cheap(best, min(prices(cs))) THEN "Cheap"
    ELSE IF high_rating(best, max(ratings(cs))) THEN "High Rating"
    ELSE "Best Match"

\* lines 109-116: the tag of the best match
best_reason(best, cs) ==
    IF high_rating(best, max(ratings(cs))) THEN "High Rating"
    ELSE IF cheap(best, min(prices(cs))) THEN "Cheap"
    ELSE "Best Match"

\* A variant of sort_key without the negation: ascending score.
sort_key_ascending(l) == <<score(l), l.basePrice>>

\* key=lambda l: (-(l.averageRating * 2.0 - l.basePrice / 100.0), l.basePrice)
sort_key(l) == <<-score(l), l.basePrice>>

\* Python's ordering of two-element tuples.
tuple_lt(j, k) == j[1] < k[1] \/ (j[1] = k[1] /\ j[2] < k[2])

\* One step of a stable sort: x goes behind every element whose key is not greater.
insert_sorted(s, x) ==
    LET p == Cardinality({i \in DOMAIN s : ~tuple_lt(sort_key(x), sort_key(s[i]))})
    IN  SubSeq(s, 1, p) \o <<x>> \o SubSeq(s, p + 1, Len(s))

RECURSIVE sorted_from(_, _, _)
sorted_from(ls, i, acc) ==
    IF i > Len(ls) THEN acc ELSE sorted_from(ls, i + 1, insert_sorted(acc, ls[i]))

\* sorted(all_listings, key=...): a new list, stably sorted (lines 68-71)
sorted(ls) == sorted_from(ls, 1, <<>>)

\* suggestions_sorted[:3]
top3(ls) == SubSeq(ls, 1, IF Len(ls) < 3 THEN Len(ls) ELSE 3)

\* lines 81-85: the tag of one suggestion
suggestion_tag(s, max_rating_all, min_price_all) ==
    IF high_rating(s, max_rating_all) THEN "High Rating"
    ELSE IF cheap(s, min_price_all) THEN "Cheap"
    ELSE "Related"

summary(l, tag) ==
    [listingId |-> l.listingId, title |-> l.title, location |-> l.location,
     basePrice |-> l.basePrice, reason |-> tag]

\* A variant of suggestion_data that takes the maximum rating and the minimum
\* price over the suggestions instead of over the whole collection.
suggestion_data_local(suggestions, all_listings) ==
    IF suggestions = <<>> THEN <<>>
    ELSE LET max_rating_all == max(ratings(suggestions))
             min_price_all == min(prices(suggestions))
         IN  [i \in DOMAIN suggestions |->
                summary(suggestions[i],
                        suggestion_tag(suggestions[i], max_rating_all, min_price_all))]

\* lines 75-94: suggestion_data, empty when there is no suggestion
suggestion_data(suggestions, all_listings) ==
    IF suggestions = <<>> THEN <<>>
    ELSE LET max_rating_all == max(ratings(all_listings))
             min_price_all == min(prices(all_listings))
         IN  [i \in DOMAIN suggestions |->
                summary(suggestions[i],
                        suggestion_tag(suggestions[i], max_rating_all, min_price_all))]

error_message(f) ==
    CASE f = "transport" -> "No matching transport listings found."
      [] f = "accommodation" -> "No matching accommodation listings found."
      [] f = "item" -> "No matching item listings found."

\* lines 64-98: the branch taken when `not candidates`
no_match(db, f) ==
    LET all_listings == get_listings(db, f)
    IN  [shape |-> "error", error |-> error_message(f),
         suggestions |-> suggestion_data(top3(sorted(all_listings)), all_listings)]

\* lines 99-123: the best match; best.listingId raises if best is still None
best_match(cs) ==
    LET best == best_loop(cs, 1, None, None)
    IN  IF ~IsSet(best) THEN [shape |-> "raise"]
        ELSE [shape |-> "match"] @@ summary(Val(best), best_reason(Val(best), cs))

\* A variant of rank without the test for an empty candidate list.
rank_unguarded(db, f, cs) == best_match(cs)

\* `if not candidates:` (line 64) chooses the branch
rank(db, f, cs) == IF cs = <<>> THEN no_match(db, f) ELSE best_match(cs)

\* A variant of listings_after in which the filters normalise the location of
\* the shared listing objects in place.
listings_after_lowered(db) == [i \in DOMAIN db |-> [db[i] EXCEPT !.location = lower(@)]]

\* What a call leaves in mock_listings: the getters and the comprehensions build new
\* lists, sorted() returns a new list, and nothing assigns to a field of a listing.
listings_after(db) == db

----------------------------------------------------------------------------
(* The arguments the callers pass *)

Opt(S) == {None} \cup {Some(v) : v \in S}

Locations == {<<>>, KualaLumpur, Penang}
Ceilings == {-1, 0, 50, 75}
Years == {0, 2018, 2021}
GuestCounts == {0, 3}

TransportArgs ==
    [location : Opt(Locations), max_price : Opt(Ceilings),
     vehicle_type : Opt({<<"C","A","R">>}), make : Opt({<<"O","Y","O">>}),
     model : Opt({<<"c","i","t","y">>}), year : Opt(Years)]
AccommodationArgs ==
    [location : Opt(Locations), max_price : Opt(Ceilings),
     property_type : Opt({<<"h","o","u","s","e">>}), num_guests : Opt(GuestCounts)]
ItemArgs ==
    [location : Opt(Locations), max_price : Opt(Ceilings),
     item_category : Opt({<<"t","o","o","l">>})]

Tools == {"transport", "accommodation", "item"}

\* How many arguments of a call are not None.
NumSet(a) == Cardinality({k \in DOMAIN a : IsSet(a[k])})

\* The calls of the sequential specification: at most MaxCriteria arguments set.
TransportCalls == {a \in TransportArgs : NumSet(a) <= MaxCriteria}
AccommodationCalls == {a \in AccommodationArgs : NumSet(a) <= MaxCriteria}
ItemCalls == {a \in ItemArgs : NumSet(a) <= MaxCriteria}

Calls(f) ==
    CASE f = "transport" -> TransportCalls
      [] f = "accommodation" -> AccommodationCalls
      [] f = "item" -> ItemCalls

\* The calls of the interleaved specification: at most one argument set.
TransportSingleCalls == {a \in TransportArgs : NumSet(a) <= 1}
AccommodationSingleCalls == {a \in AccommodationArgs : NumSet(a) <= 1}
ItemSingleCalls == {a \in ItemArgs : NumSet(a) <= 1}

SingleCalls(f) ==
    CASE f = "transport" -> TransportSingleCalls
      [] f = "accommodation" -> AccommodationSingleCalls
      [] f = "item" -> ItemSingleCalls

----------------------------------------------------------------------------
(* The state machine *)

Callers == {"c1", "c2"}

NoCall == [none |-> TRUE]

InitWith(db, cs) ==
    /\ mock_listings = db
    /\ callers = cs
    /\ pc = [c \in Callers |-> "idle"]
    /\ fn = [c \in Callers |-> "none"]
    /\ crit = [c \in Callers |-> NoCall]
    /\ candidates = [c \in Callers |-> <<>>]
    /\ result = [c \in Callers |-> NoCall]
    /\ prev = [c \in Callers |-> None]

\* One caller, any collection.
Init == \E db \in Collections : InitWith(db, {"c1"})

\* Two callers over the shipped collection.
InitShared == InitWith(MockListings, Callers)

\* A caller invokes tool f with arguments a: the tool reads the collection and
\* applies its filters (transport 49-62, accommodation 41-49, item 36-42).
Call(c, f, a) ==
    /\ pc[c] = "idle"
    /\ fn' = [fn EXCEPT ![c] = f]
    /\ crit' = [crit EXCEPT ![c] = a]
    /\ candidates' = [candidates EXCEPT ![c] = filter_listings(mock_listings, f, a)]
    /\ pc' = [pc EXCEPT ![c] = "filtered"]
    /\ mock_listings' = listings_after(mock_listings)
    /\ UNCHANGED <<callers, result, prev>>

\* The tool ranks: suggestions from the collection read again when nothing is
\* left, the best match otherwise, and returns (transport 64-123).
Rank(c) ==
    /\ pc[c] = "filtered"
    /\ result' = [result EXCEPT ![c] = rank(mock_listings, fn[c], candidates[c])]
    /\ pc' = [pc EXCEPT ![c] = "done"]
    /\ mock_listings' = listings_after(mock_listings)
    /\ UNCHANGED <<callers, fn, crit, candidates, prev>>

\* The caller drops the result and is ready for another request.
Return(c) ==
    /\ pc[c] = "done"
    /\ pc' = [pc EXCEPT ![c] = "idle"]
    /\ fn' = [fn EXCEPT ![c] = "none"]
    /\ crit' = [crit EXCEPT ![c] = NoCall]
    /\ candidates' = [candidates EXCEPT ![c] = <<>>]
    /\ result' = [result EXCEPT ![c] = NoCall]
    /\ prev' = [prev EXCEPT ![c] = None]
    /\ UNCHANGED <<mock_listings, callers>>

\* The caller invokes the same tool again with the same arguments, keeping what
\* its first call with them returned.
CallAgain(c) ==
    /\ pc[c] = "done"
    /\ prev' = [prev EXCEPT ![c] = IF IsSet(prev[c]) THEN prev[c] ELSE Some(result[c])]
    /\ candidates' = [candidates EXCEPT ![c] = filter_listings(mock_listings, fn[c], crit[c])]
    /\ pc' = [pc EXCEPT ![c] = "filtered"]
    /\ mock_listings' = listings_after(mock_listings)
    /\ UNCHANGED <<callers, fn, crit, result>>

\* Any request of the sequential specification.
Request(c) == pc[c] = "idle" /\ \E f \in Tools : \E a \in Calls(f) : Call(c, f, a)

\* Any request of the interleaved specification.
SingleRequest(c) == pc[c] = "idle" /\ \E f \in Tools : \E a \in SingleCalls(f) : Call(c, f, a)

Next ==
    \/ \E c \in callers : Request(c)
    \/ \E c \in callers : Rank(c)
    \/ \E c \in callers : Return(c)

NextShared ==
    \/ \E c \in callers : SingleRequest(c)
    \/ \E c \in callers : Rank(c)
    \/ \E c \in callers : Return(c)
    \/ \E c \in callers : CallAgain(c)

Spec == Init /\ [][Next]_vars

SpecShared == InitShared /\ [][NextShared]_vars

----------------------------------------------------------------------------
(* Vocabulary of the properties *)

\* The call of c has applied its filters / has returned.
Filtered(c) == c \in callers /\ pc[c] \in {"filtered", "done"}
Returned(c) == c \in callers /\ pc[c] = "done"

\* The category collection the call of c draws from.
Category(c) == get_listings(mock_listings, fn[c])

\* The score of the specification, averageRating * 2.0 - basePrice / 100.0, in hundredths.
SpecScore(l) == 2 * (l.averageRating * 10) - l.basePrice

\* The positions of the candidates of c that the returned best match names.
Winners(c) ==
    {i \in DOMAIN candidates[c] : candidates[c][i].listingId = result[c].listingId}

\* The position in ls of the listing with identifier id (identifiers are unique).
PosOf(ls, id) == CHOOSE i \in DOMAIN ls : ls[i].listingId = id

\* a comes before b when sorted by descending score, then ascending basePrice.
Before(a, b) ==
    \/ SpecScore(a) > SpecScore(b)
    \/ SpecScore(a) = SpecScore(b) /\ a.basePrice < b.basePrice
SameRank(a, b) == SpecScore(a) = SpecScore(b) /\ a.basePrice = b.basePrice

----------------------------------------------------------------------------
\* C1: when the candidate set is not empty, the search returns a best match that
\* is one of the candidates, carries that candidate's fields, and has a score at
\* least as high as every candidate's.
C1_BestIsMaxCandidate ==
    \A c \in Callers :
        (Returned(c) /\ candidates[c] # <<>>) =>
            /\ result[c].shape = "match"
            /\ \E i \in DOMAIN candidates[c] :
                 /\ result[c].listingId = candidates[c][i].listingId
                 /\ result[c].title = candidates[c][i].title
                 /\ result[c].location = candidates[c][i].location
                 /\ result[c].basePrice = candidates[c][i].basePrice
                 /\ \A j \in DOMAIN candidates[c] :
                      SpecScore(candidates[c][i]) >= SpecScore(candidates[c][j])

\* C1's case: several candidates of different scores, the best of them not the
\* first in the collection.
C1_Witness ==
    \E c \in Callers :
        /\ Returned(c) /\ Len(candidates[c]) >= 3
        /\ result[c].shape = "match"
        /\ result[c].listingId # candidates[c][1].listingId
        /\ \E i, j \in DOMAIN candidates[c] :
             SpecScore(candidates[c][i]) < SpecScore(candidates[c][j])

----------------------------------------------------------------------------
\* C2: when the candidate set is empty, the suggestions are the first min(3, n)
\* listings of the whole category collection in the order of descending score,
\* then ascending basePrice (listings equal in both keep their collection order),
\* and are never more than 3.
C2_SuggestionsAreSortedPrefix ==
    \A c \in Callers :
        (Returned(c) /\ candidates[c] = <<>>) =>
            LET all == Category(c)
                sug == result[c].suggestions
                n == Len(all)
                at(k) == all[PosOf(all, sug[k].listingId)]
                chosen == {PosOf(all, sug[k].listingId) : k \in DOMAIN sug}
            IN  /\ result[c].shape = "error"
                /\ Len(sug) <= 3
                /\ Len(sug) = IF n < 3 THEN n ELSE 3
                /\ \A k \in DOMAIN sug : \E i \in DOMAIN all :
                     /\ all[i].listingId = sug[k].listingId
                     /\ all[i].title = sug[k].title
                     /\ all[i].location = sug[k].location
                     /\ all[i].basePrice = sug[k].basePrice
                /\ Cardinality(chosen) = Len(sug)
                /\ \A j, k \in DOMAIN sug :
                     j < k =>
                        \/ Before(at(j), at(k))
                        \/ /\ SameRank(at(j), at(k))
                           /\ PosOf(all, sug[j].listingId) < PosOf(all, sug[k].listingId)
                /\ \A k \in DOMAIN sug : \A i \in DOMAIN all \ chosen :
                        \/ Before(at(k), all[i])
                        \/ /\ SameRank(at(k), all[i])
                           /\ PosOf(all, sug[k].listingId) < i

\* C2's case: more than three listings in the category, not already in sorted
\* order, and two of them equal in score.
C2_Witness ==
    \E c \in Callers :
        /\ Returned(c) /\ candidates[c] = <<>>
        /\ Len(Category(c)) > 3
        /\ Len(result[c].suggestions) = 3
        /\ result[c].suggestions[1].listingId # Category(c)[1].listingId
        /\ \E i, j \in DOMAIN Category(c) :
             i # j /\ SpecScore(Category(c)[i]) = SpecScore(Category(c)[j])

----------------------------------------------------------------------------
\* What the specification asks of a listing for the arguments that are set.
TextMatch(o, field) == IsSet(o) => str_in(lower(Val(o)), lower(field))

Satisfies(l, f, a) ==
    /\ TextMatch(a.location, l.location)
    /\ IsSet(a.max_price) => l.basePrice <= Val(a.max_price)
    /\ f = "transport" =>
          /\ TextMatch(a.vehicle_type, l.vehicleType)
          /\ TextMatch(a.make, l.make)
          /\ TextMatch(a.model, l.model)
          /\ IsSet(a.year) => l.year = Val(a.year)
    /\ f = "accommodation" =>
          /\ TextMatch(a.property_type, l.propertyType)
          /\ IsSet(a.num_guests) => l.numGuests >= Val(a.num_guests)
    /\ f = "item" => TextMatch(a.item_category, l.itemCategory)

\* C3: the candidate set is exactly the listings of the category collection that
\* satisfy every argument that is set, in collection order.
C3_CandidatesAreExactlyTheMatches ==
    \A c \in Callers :
        Filtered(c) =>
            candidates[c] =
                SelectSeq(Category(c), LAMBDA l : Satisfies(l, fn[c], crit[c]))

----------------------------------------------------------------------------
\* C4: whenever year is supplied to the transport search, 0 included, every
\* candidate has that year, and a year no listing has gives the error result.
C4_SuppliedYearIsExact ==
    \A c \in Callers :
        (Filtered(c) /\ fn[c] = "transport" /\ IsSet(crit[c].year)) =>
            /\ \A i \in DOMAIN candidates[c] : candidates[c][i].year = Val(crit[c].year)
            /\ (Returned(c) /\ \A i \in DOMAIN Category(c) :
                                  Category(c)[i].year # Val(crit[c].year))
                  => result[c].shape = "error"

----------------------------------------------------------------------------
\* C5: the best match carries exactly one tag: "High Rating" if its rating is at
\* least 4.5 and at least 0.99 of the highest rating among the candidates;
\* otherwise "Cheap" if its price is at most 1.01 of the lowest price among the
\* candidates; otherwise "Best Match"; never "Related".
C5_BestMatchTag ==
    \A c \in Callers :
        (Returned(c) /\ candidates[c] # <<>>) =>
            \A i \in Winners(c) :
                LET w == candidates[c][i]
                    cs == candidates[c]
                    High == /\ w.averageRating >= 45
                            /\ \A j \in DOMAIN cs :
                                 100 * w.averageRating >= 99 * cs[j].averageRating
                    Low == \A j \in DOMAIN cs : 100 * w.basePrice <= 101 * cs[j].basePrice
                IN  /\ Winners(c) # {}
                    /\ result[c].reason \in {"High Rating", "Cheap", "Best Match"}
                    /\ result[c].reason = "High Rating" <=> High
                    /\ result[c].reason = "Cheap" <=> (~High /\ Low)
                    /\ result[c].reason = "Best Match" <=> (~High /\ ~Low)

\* C5's case: among several candidates, a winner that is neither highly rated nor
\* within 1% of the cheapest.
C5_Witness ==
    \E c \in Callers :
        /\ Returned(c) /\ Len(candidates[c]) >= 2
        /\ result[c].shape = "match"
        /\ result[c].reason = "Best Match"

----------------------------------------------------------------------------
\* C6: with no candidate, each suggestion carries exactly one tag, taken against
\* the highest rating and the lowest price of the whole category collection:
\* "High Rating", otherwise "Cheap", otherwise "Related"; never "Best Match".
C6_SuggestionTag ==
    \A c \in Callers :
        (Returned(c) /\ candidates[c] = <<>>) =>
            \A k \in DOMAIN result[c].suggestions :
                LET all == Category(c)
                    s == all[PosOf(all, result[c].suggestions[k].listingId)]
                    tag == result[c].suggestions[k].reason
                    High == /\ s.averageRating >= 45
                            /\ \A j \in DOMAIN all :
                                 100 * s.averageRating >= 99 * all[j].averageRating
                    Low == \A j \in DOMAIN all : 100 * s.basePrice <= 101 * all[j].basePrice
                IN  /\ tag \in {"High Rating", "Cheap", "Related"}
                    /\ tag = "High Rating" <=> High
                    /\ tag = "Cheap" <=> (~High /\ Low)
                    /\ tag = "Related" <=> (~High /\ ~Low)

\* C6's case: a suggestion tagged "Related" that is the cheapest of the
\* suggestions, the cheapest listing of the collection not being suggested.
C6_Witness ==
    \E c \in Callers :
        /\ Returned(c) /\ candidates[c] = <<>>
        /\ Len(Category(c)) > 3
        /\ \E k \in DOMAIN result[c].suggestions :
             /\ result[c].suggestions[k].reason = "Related"
             /\ \A j \in DOMAIN result[c].suggestions :
                  result[c].suggestions[k].basePrice <= result[c].suggestions[j].basePrice
             /\ \E i \in DOMAIN Category(c) :
                  Category(c)[i].basePrice < result[c].suggestions[k].basePrice

----------------------------------------------------------------------------
\* C7: a search returns one of two shapes and never raises: the error indicator
\* with a suggestion list exactly when the candidate set is empty, one best-match
\* record (listingId, title, location, basePrice, reason) exactly when it is not;
\* an empty category collection gives the error indicator with no suggestion.
C7_TwoShapes ==
    \A c \in Callers :
        Returned(c) =>
            /\ result[c].shape \in {"error", "match"}
            /\ result[c].shape = "error" <=> candidates[c] = <<>>
            /\ result[c].shape = "match" <=> candidates[c] # <<>>
            /\ result[c].shape = "error" =>
                 DOMAIN result[c] = {"shape", "error", "suggestions"}
            /\ result[c].shape = "match" =>
                 DOMAIN result[c] =
                    {"shape", "listingId", "title", "location", "basePrice", "reason"}
            /\ Category(c) = <<>> =>
                 (result[c].shape = "error" /\ result[c].suggestions = <<>>)

\* C7's case: a search over a collection that holds no listing of its category.
C7_Witness ==
    \E c \in Callers :
        /\ Returned(c)
        /\ mock_listings # <<>>
        /\ Category(c) = <<>>
        /\ result[c].shape = "error"
        /\ result[c].suggestions = <<>>

----------------------------------------------------------------------------
\* The arguments of the two examples of the specification.
TransportExample(c) ==
    /\ Returned(c) /\ mock_listings = MockListings /\ fn[c] = "transport"
    /\ crit[c] = [location |-> Some(KualaLumpur), max_price |-> Some(75),
                  vehicle_type |-> None, make |-> None, model |-> None, year |-> None]

AccommodationExample(c) ==
    /\ Returned(c) /\ mock_listings = MockListings /\ fn[c] = "accommodation"
    /\ crit[c] = [location |-> Some(Penang), max_price |-> Some(50),
                  property_type |-> None, num_guests |-> None]

\* C8, as stated: the transport search for "Kuala Lumpur" under 75 over the
\* shipped listings has the candidate set {City}, returns City (T002), and tags
\* it "Cheap".
C8_ExampleIsCheap ==
    \A c \in Callers :
        TransportExample(c) =>
            /\ candidates[c] = <<T002>>
            /\ result[c].shape = "match"
            /\ result[c].listingId = "T002"
            /\ result[c].reason = "Cheap"

\* C8, amended: the same search has the candidate set {City}, returns City
\* (T002, at its price of 70), and tags it "High Rating".
C8_ExampleIsHighRating ==
    \A c \in Callers :
        TransportExample(c) =>
            /\ candidates[c] = <<T002>>
            /\ result[c].shape = "match"
            /\ result[c].listingId = "T002"
            /\ result[c].basePrice = 70
            /\ result[c].reason = "High Rating"

\* C8's case: the example search has returned.
C8_Witness == \E c \in Callers : TransportExample(c) /\ result[c].shape = "match"

----------------------------------------------------------------------------
\* C9, as stated: the accommodation search for "Penang" under 50 over the shipped
\* listings has no candidate, returns the error result with suggestions drawn
\* from all accommodation listings, and the first suggestion is the listing with
\* the higher averageRating of the two.
C9_FirstSuggestionIsHigherRated ==
    \A c \in Callers :
        AccommodationExample(c) =>
            /\ candidates[c] = <<>>
            /\ result[c].shape = "error"
            /\ {result[c].suggestions[k].listingId : k \in DOMAIN result[c].suggestions}
                  = {"A001", "A002"}
            /\ \A i \in DOMAIN Category(c) :
                 Category(c)[PosOf(Category(c), result[c].suggestions[1].listingId)].averageRating
                    >= Category(c)[i].averageRating

\* C9, amended: the same search has no candidate and returns the error result
\* with both accommodation listings as suggestions; the first is A001, the one of
\* higher score (7.7 against 7.6) and lower averageRating (4.6 against 4.8),
\* tagged "Cheap", and the second is A002, tagged "High Rating".
C9_FirstSuggestionIsHigherScored ==
    \A c \in Callers :
        AccommodationExample(c) =>
            /\ candidates[c] = <<>>
            /\ result[c].shape = "error"
            /\ Len(result[c].suggestions) = 2
            /\ result[c].suggestions[1].listingId = "A001"
            /\ result[c].suggestions[1].reason = "Cheap"
            /\ result[c].suggestions[2].listingId = "A002"
            /\ result[c].suggestions[2].reason = "High Rating"
            /\ SpecScore(A001) > SpecScore(A002)
            /\ A001.averageRating < A002.averageRating

\* C9's case: the example search has returned.
C9_Witness == \E c \in Callers : AccommodationExample(c) /\ result[c].shape = "error"

----------------------------------------------------------------------------
\* Every returned call agrees with the first call its caller made with the same
\* arguments, and with every other caller's call with the same arguments.
Repeatable ==
    /\ \A c \in Callers :
         (Returned(c) /\ IsSet(prev[c])) => result[c] = Val(prev[c])
    /\ \A c, d \in Callers :
         (Returned(c) /\ Returned(d) /\ fn[c] = fn[d] /\ crit[c] = crit[d])
            => result[c] = result[d]

----------------------------------------------------------------------------
\* C11: when several candidates share the highest score, the best match is the
\* one of them that comes first in collection order, whatever their basePrice
\* and listingId.
C11_FirstOfTheTiedWins ==
    \A c \in Callers :
        (Returned(c) /\ candidates[c] # <<>>) =>
            LET cs == candidates[c]
                top == {i \in DOMAIN cs :
                          \A j \in DOMAIN cs : SpecScore(cs[i]) >= SpecScore(cs[j])}
                first == CHOOSE i \in top : \A j \in top : i <= j
            IN  /\ result[c].shape = "match"
                /\ result[c].listingId = cs[first].listingId
                /\ Winners(c) = {first}

\* C11's case: two candidates share the highest score, a third scores less, and
\* the one returned, the earlier of the two in the collection, has the higher
\* basePrice.
C11_Witness ==
    \E c \in Callers :
        /\ Returned(c) /\ result[c].shape = "match"
        /\ \E i, j \in DOMAIN candidates[c] :
             /\ i < j
             /\ result[c].listingId = candidates[c][i].listingId
             /\ SpecScore(candidates[c][i]) = SpecScore(candidates[c][j])
             /\ candidates[c][i].basePrice > candidates[c][j].basePrice
             /\ \E k \in DOMAIN candidates[c] :
                  SpecScore(candidates[c][k]) < SpecScore(candidates[c][i])

----------------------------------------------------------------------------
\* The argument sets that b extends: each sets some of the arguments b sets, to
\* the same values, and nothing else.
Weaker(b) ==
    LET set == {k \in DOMAIN b : IsSet(b[k])}
    IN  {[k \in DOMAIN b |-> IF k \in S THEN b[k] ELSE None] : S \in SUBSET set}

Ids(ls) == {ls[i].listingId : i \in DOMAIN ls}

\* C12: filtering is monotone in the arguments: the candidate set of a call is a
\* subset of the candidate set of every call over the same collection that sets
\* fewer arguments, to the same values (stated where the filters have just run).
C12_MoreCriteriaFewerCandidates ==
    \A c \in Callers :
        (c \in callers /\ pc[c] = "filtered") =>
            \A a \in Weaker(crit[c]) :
                Ids(candidates[c]) \subseteq Ids(filter_listings(mock_listings, fn[c], a))

\* C12's case: a call with two arguments set keeps some listings, and fewer than
\* either argument alone keeps.
C12_Witness ==
    \E c \in Callers :
        /\ Filtered(c) /\ NumSet(crit[c]) = 2
        /\ candidates[c] # <<>>
        /\ \A a \in Weaker(crit[c]) :
             NumSet(a) = 1 =>
                Ids(filter_listings(mock_listings, fn[c], a)) # Ids(candidates[c])

----------------------------------------------------------------------------
\* C13: the price ceiling applies whenever max_price is supplied, 0 and negative
\* values included: no candidate costs more than it; with every basePrice >= 0 a
\* negative ceiling leaves no candidate and gives the ordinary error result with
\* suggestions; a ceiling of 0 keeps only listings whose basePrice is 0 (all of
\* them when it is the only argument).
C13_CeilingAlwaysApplies ==
    \A c \in Callers :
        (Filtered(c) /\ IsSet(crit[c].max_price)) =>
            LET cs == candidates[c]
                ceiling == Val(crit[c].max_price)
            IN  /\ \A i \in DOMAIN Category(c) : Category(c)[i].basePrice >= 0
                /\ \A i \in DOMAIN cs : cs[i].basePrice <= ceiling
                /\ ceiling < 0 =>
                     /\ cs = <<>>
                     /\ Returned(c) =>
                          /\ result[c].shape = "error"
                          /\ DOMAIN result[c] = {"shape", "error", "suggestions"}
                          /\ result[c].error = error_message(fn[c])
                          /\ Len(result[c].suggestions) =
                                IF Len(Category(c)) < 3 THEN Len(Category(c)) ELSE 3
                /\ ceiling = 0 =>
                     /\ \A i \in DOMAIN cs : cs[i].basePrice = 0
                     /\ NumSet(crit[c]) = 1 =>
                          cs = SelectSeq(Category(c), LAMBDA l : l.basePrice = 0)

\* C13's case: a search with max_price = 0 over a category that holds a free
\* listing and dearer ones has returned the free one.
C13_Witness ==
    \E c \in Callers :
        /\ Returned(c) /\ crit[c].max_price = Some(0)
        /\ result[c].shape = "match"
        /\ result[c].basePrice = 0
        /\ Len(candidates[c]) < Len(Category(c))

----------------------------------------------------------------------------
\* C14: when exactly one listing is a candidate, its tag is "High Rating" if its
\* averageRating is at least 4.5 and "Cheap" otherwise; never "Best Match".
C14_SoleCandidateTag ==
    \A c \in Callers :
        (Returned(c) /\ Len(candidates[c]) = 1) =>
            /\ result[c].shape = "match"
            /\ result[c].listingId = candidates[c][1].listingId
            /\ result[c].reason =
                 IF candidates[c][1].averageRating >= 45 THEN "High Rating" ELSE "Cheap"
            /\ result[c].reason # "Best Match"

\* C14's case: the sole candidate, left by the filters from a larger category, is
\* rated below 4.5 and tagged "Cheap".
C14_Witness ==
    \E c \in Callers :
        /\ Returned(c) /\ Len(candidates[c]) = 1
        /\ Len(Category(c)) > 1
        /\ candidates[c][1].averageRating < 45
        /\ result[c].reason = "Cheap"

====
